---- MODULE Spec2Model ----
(***************************************************************************)
(* Model of the mm_manager table codec: the helpers of mm_util.c (crc16,   *)
(* phone_num_to_string, string_to_bcd_a, callscrn_num_to_string,           *)
(* call_type_to_string, print_bits), the card table converter              *)
(* mm_convert_card_mtr2_to_mtr1 and the carrier table tool mm_carrier.     *)
(*                                                                         *)
(* The programs are single-threaded.  The state is the position of the     *)
(* running function (pc) and its frame: the arguments, the locals and the  *)
(* memory the arguments point at, under the names the source gives them.   *)
(* Every run executes one function on one input drawn by Init.             *)
(***************************************************************************)
EXTENDS Integers, Sequences, FiniteSets, TLC

VARIABLES pc, frame

vars == <<pc, frame>>

---------------------------------------------------------------------------
(* Bit operations of C on non-negative integers.                           *)

RECURSIVE BitAnd(_, _)
BitAnd(a, b) ==
    IF a = 0 \/ b = 0 THEN 0
    ELSE (IF a % 2 = 1 /\ b % 2 = 1 THEN 1 ELSE 0) + 2 * BitAnd(a \div 2, b \div 2)

RECURSIVE BitOr(_, _)
BitOr(a, b) ==
    IF a = 0 THEN b
    ELSE IF b = 0 THEN a
    ELSE (IF a % 2 = 1 \/ b % 2 = 1 THEN 1 ELSE 0) + 2 * BitOr(a \div 2, b \div 2)

RECURSIVE BitXor(_, _)
BitXor(a, b) ==
    IF a = 0 THEN b
    ELSE IF b = 0 THEN a
    ELSE (IF a % 2 # b % 2 THEN 1 ELSE 0) + 2 * BitXor(a \div 2, b \div 2)

Shr(a, n) == a \div (2 ^ n)

Shl(a, n) == a * (2 ^ n)

Min(a, b) == IF a < b THEN a ELSE b

(* All sequences over S of length 0..n.                                    *)
SeqsUpTo(S, n) == UNION { [1..k -> S] : k \in 0..n }

---------------------------------------------------------------------------
(* crc16, src/mm_util.c:20-37                                              *)

POLY == 40961

MaxCrcLen == 3

CrcSeeds == {0, 1, 4660, 32768, 40961, 65535}

CrcBytes == {0, 1, 49, 128, 255}

(* A round that tests the low bit after the shift instead of before it.    *)
crc16_round_late_test(crc) ==
    IF BitAnd(Shr(crc, 1), 1) # 0 THEN BitXor(Shr(crc, 1), POLY) ELSE Shr(crc, 1)

(* One of the eight unrolled lines of the loop body.                       *)
crc16_round(crc) ==
    IF BitAnd(crc, 1) # 0 THEN BitXor(Shr(crc, 1), POLY) ELSE Shr(crc, 1)

(* The loop body: crc ^= *buf++, then the eight rounds.                    *)
crc16_body(crc, byte) ==
    crc16_round(crc16_round(crc16_round(crc16_round(
    crc16_round(crc16_round(crc16_round(crc16_round(BitXor(crc, byte)))))))))

crc16_Init ==
    /\ pc = "crc16_while"
    /\ \E seed \in CrcSeeds, data \in SeqsUpTo(CrcBytes, MaxCrcLen) :
          frame = [fn |-> "crc16", seed |-> seed, data |-> data,
                   crc |-> seed, buf |-> 0, len |-> Len(data), ret |-> -1]

(* while (len--) { ... }  with len # 0                                     *)
crc16_while ==
    /\ pc = "crc16_while"
    /\ frame.len # 0
    /\ frame' = [frame EXCEPT !.crc = crc16_body(frame.crc, frame.data[frame.buf + 1]),
                              !.buf = @ + 1,
                              !.len = @ - 1]
    /\ pc' = "crc16_while"

(* while (len--) fails; return crc.                                        *)
crc16_return ==
    /\ pc = "crc16_while"
    /\ frame.len = 0
    /\ frame' = [frame EXCEPT !.ret = frame.crc]
    /\ pc' = "crc16_done"

crc16_Next == crc16_while \/ crc16_return

Spec_crc16 == crc16_Init /\ [][crc16_Next]_vars

(* The reference reflected CRC-16, written from its definition with bit    *)
(* sets: a word is the set of its one bits, XOR is symmetric difference.   *)
RefBits(n) == { k \in 0..15 : (n \div (2 ^ k)) % 2 = 1 }

RECURSIVE RefValue(_, _)
RefValue(S, k) ==
    IF k > 15 THEN 0 ELSE (IF k \in S THEN 2 ^ k ELSE 0) + RefValue(S, k + 1)

RefXor(a, b) ==
    RefValue((RefBits(a) \ RefBits(b)) \cup (RefBits(b) \ RefBits(a)), 0)

RECURSIVE RefRounds(_, _)
RefRounds(acc, n) ==
    IF n = 0 THEN acc
    ELSE RefRounds(IF acc % 2 = 1 THEN RefXor(acc \div 2, 10 * 4096 + 1)
                                  ELSE acc \div 2, n - 1)

RECURSIVE RefCrc16(_, _)
RefCrc16(seed, bytes) ==
    IF bytes = <<>> THEN seed
    ELSE LET acc == RefCrc16(seed, SubSeq(bytes, 1, Len(bytes) - 1))
             b   == bytes[Len(bytes)]
         IN  RefRounds((acc \div 256) * 256 + RefXor(acc % 256, b), 8)

(* C7: for every seed in 0..0xFFFF and every byte sequence, the            *)
(* accumulator of crc16 stays within 0..0xFFFF after every byte and equals *)
(* the reference reflected CRC-16 (polynomial 0xA001) of the bytes         *)
(* consumed so far; the value returned is the reference CRC of the whole   *)
(* sequence, a function of the seed and the bytes alone, and the seed      *)
(* itself for the empty sequence.                                          *)
C7_Crc16IsReflectedCrc ==
    frame.fn = "crc16" =>
        /\ frame.crc \in 0..65535
        /\ frame.crc = RefCrc16(frame.seed, SubSeq(frame.data, 1, frame.buf))
        /\ pc = "crc16_done" =>
              /\ frame.ret = RefCrc16(frame.seed, frame.data)
              /\ (frame.data = <<>> => frame.ret = frame.seed)

(* crc16 has returned the checksum of at least two bytes, and it differs   *)
(* from the seed.                                                          *)
C7_Witness ==
    /\ pc = "crc16_done"
    /\ Len(frame.data) >= 2
    /\ frame.ret # frame.seed

---------------------------------------------------------------------------
(* Stores through a char pointer that walks a caller's buffer.             *)
(* string_buf holds the bytes stored so far, in order from offset 0, so    *)
(* pstr, the offset of the next store, is its length.  The caller's buffer *)
(* has string_buf_len bytes: a store at an offset >= string_buf_len is     *)
(* outside it.                                                             *)

Store(f, byte) == [f EXCEPT !.string_buf = Append(@, byte), !.pstr = @ + 1]

Overflowed(f) == Len(f.string_buf) > f.string_buf_len

(* The step to frame f and position next.  A store outside the buffer is   *)
(* undefined: it lands in the memory after the buffer, or a build that     *)
(* checks object bounds stops the program at it.                           *)
Step(f, next) ==
    \/ /\ frame' = f
       /\ pc' = next
    \/ /\ Overflowed(f)
       /\ ~Overflowed(frame)
       /\ frame' = frame
       /\ pc' = "fault"

MaxNumBufLen == 3

MaxStringBufLen == 7

NumBytes == {10, 18, 78, 160, 227, 255}

NumBufs == SeqsUpTo(NumBytes, MaxNumBufLen)

---------------------------------------------------------------------------
(* phone_num_to_string, src/mm_util.c:77-101                               *)

phone_num_to_string_Init ==
    /\ pc = "phone_for"
    /\ \E num_buf \in NumBufs, string_buf_len \in 0..MaxStringBufLen :
          frame = [fn |-> "phone_num_to_string",
                   string_buf |-> <<>>, string_buf_len |-> string_buf_len,
                   num_buf |-> num_buf, num_buf_len |-> Len(num_buf),
                   pstr |-> 0, i |-> 0, j |-> 0, pn_digit |-> 0]

(* One iteration of the for loop: the frame after it and whether it broke  *)
(* out of the loop.                                                        *)
phone_body(f) ==
    LET hi == Shr(f.num_buf[f.i + 1], 4)
        lo == BitAnd(f.num_buf[f.i + 1], 15)
        f0 == [f EXCEPT !.pn_digit = hi]
        f1 == [Store(f0, hi + 48) EXCEPT !.j = @ + 1]
        f2 == [f1 EXCEPT !.pn_digit = lo]
        f3 == [Store(f2, lo + 48) EXCEPT !.j = @ + 1]
    IN  IF hi = 14 THEN [f |-> f0, brk |-> TRUE]
        ELSE IF f1.j >= f.string_buf_len - 1 THEN [f |-> f1, brk |-> TRUE]
        ELSE IF lo = 14 THEN [f |-> f2, brk |-> TRUE]
        ELSE IF f3.j >= f.string_buf_len - 1 THEN [f |-> f3, brk |-> TRUE]
        ELSE [f |-> [f3 EXCEPT !.i = @ + 1], brk |-> FALSE]

phone_for ==
    /\ pc = "phone_for"
    /\ frame.i < frame.num_buf_len
    /\ LET r == phone_body(frame)
       IN  Step(r.f, IF r.brk THEN "phone_end" ELSE "phone_for")

phone_for_exit ==
    /\ pc = "phone_for"
    /\ ~(frame.i < frame.num_buf_len)
    /\ pc' = "phone_end"
    /\ UNCHANGED frame

(* *pstr = '\0'; return string_buf;                                        *)
phone_end ==
    /\ pc = "phone_end"
    /\ Step(Store(frame, 0), "phone_done")

phone_num_to_string_Next == phone_for \/ phone_for_exit \/ phone_end

Spec_phone_num_to_string ==
    phone_num_to_string_Init /\ [][phone_num_to_string_Next]_vars

(* The nibbles of a buffer, the high nibble of each byte first.            *)
Nibbles(buf) ==
    [n \in 1..(2 * Len(buf)) |->
        IF n % 2 = 1 THEN buf[(n + 1) \div 2] \div 16 ELSE buf[n \div 2] % 16]

(* The number of nibbles before the first one equal to v, all of them if   *)
(* there is none.                                                          *)
NibblesBefore(nibs, v) ==
    IF \E n \in 1..Len(nibs) : nibs[n] = v
    THEN (CHOOSE n \in 1..Len(nibs) :
            nibs[n] = v /\ \A m \in 1..(n - 1) : nibs[m] # v) - 1
    ELSE Len(nibs)

(* C3: for every input buffer and every string_buf_len >= 1,               *)
(* phone_num_to_string writes exactly min(k, string_buf_len - 1)           *)
(* characters, k being the number of nibbles before the first 0xE (all of  *)
(* them if there is none), character j being '0' + nibble j, then one NUL, *)
(* and so never more than string_buf_len bytes.                            *)
C3_PhoneWritesWithinCapacity ==
    (pc \in {"phone_done", "fault"} /\ frame.fn = "phone_num_to_string"
        /\ frame.string_buf_len >= 1) =>
        LET nibs == Nibbles(frame.num_buf)
            m    == Min(NibblesBefore(nibs, 14), frame.string_buf_len - 1)
        IN  /\ pc = "phone_done"
            /\ frame.string_buf = [n \in 1..m |-> 48 + nibs[n]] \o <<0>>
            /\ Len(frame.string_buf) <= frame.string_buf_len

(* The same statement for every string_buf_len >= 2, where it holds.       *)
Phone_HoldsFromCapacityTwo ==
    (pc \in {"phone_done", "fault"} /\ frame.fn = "phone_num_to_string"
        /\ frame.string_buf_len >= 2) =>
        LET nibs == Nibbles(frame.num_buf)
            m    == Min(NibblesBefore(nibs, 14), frame.string_buf_len - 1)
        IN  /\ pc = "phone_done"
            /\ frame.string_buf = [n \in 1..m |-> 48 + nibs[n]] \o <<0>>
            /\ Len(frame.string_buf) <= frame.string_buf_len

---------------------------------------------------------------------------
(* callscrn_num_to_string, src/mm_util.c:132-159                           *)

(* pn_lut[n] is pn_lut[n + 1] here: '\0', '1'..'9', '0', 'B'..'F'.         *)
pn_lut == <<0, 49, 50, 51, 52, 53, 54, 55, 56, 57, 48, 66, 67, 68, 69, 70>>

callscrn_num_to_string_Init ==
    /\ pc = "callscrn_for"
    /\ \E num_buf \in NumBufs, string_buf_len \in 0..MaxStringBufLen :
          frame = [fn |-> "callscrn_num_to_string",
                   string_buf |-> <<>>, string_buf_len |-> string_buf_len,
                   num_buf |-> num_buf, num_buf_len |-> Len(num_buf),
                   pstr |-> 0, i |-> 0, j |-> 0, pn_digit |-> 0]

(* One iteration of the for loop: the frame after it and whether it broke  *)
(* out of the loop.                                                        *)
callscrn_body(f) ==
    LET hi == Shr(f.num_buf[f.i + 1], 4)
        lo == BitAnd(f.num_buf[f.i + 1], 15)
        f1 == [Store([f EXCEPT !.pn_digit = hi], pn_lut[hi + 1]) EXCEPT !.j = @ + 1]
        f2 == [Store([f1 EXCEPT !.pn_digit = lo], pn_lut[lo + 1]) EXCEPT !.j = @ + 1]
    IN  IF f1.j >= f.string_buf_len - 1 THEN [f |-> f1, brk |-> TRUE]
        ELSE IF f2.j >= f.string_buf_len - 1 THEN [f |-> f2, brk |-> TRUE]
        ELSE [f |-> [f2 EXCEPT !.i = @ + 1], brk |-> FALSE]

callscrn_for ==
    /\ pc = "callscrn_for"
    /\ frame.i < frame.num_buf_len
    /\ LET r == callscrn_body(frame)
       IN  Step(r.f, IF r.brk THEN "callscrn_end" ELSE "callscrn_for")

callscrn_for_exit ==
    /\ pc = "callscrn_for"
    /\ ~(frame.i < frame.num_buf_len)
    /\ pc' = "callscrn_end"
    /\ UNCHANGED frame

(* *pstr = '\0'; return string_buf;                                        *)
callscrn_end ==
    /\ pc = "callscrn_end"
    /\ Step(Store(frame, 0), "callscrn_done")

callscrn_num_to_string_Next == callscrn_for \/ callscrn_for_exit \/ callscrn_end

Spec_callscrn_num_to_string ==
    callscrn_num_to_string_Init /\ [][callscrn_num_to_string_Next]_vars

(* The characters of the lookup table, as the claim lists them.            *)
LutChar(n) ==
    IF n = 0 THEN 0
    ELSE IF n <= 9 THEN 48 + n
    ELSE IF n = 10 THEN 48
    ELSE 65 + (n - 10)

(* C6: for every input buffer and every string_buf_len >= 1,               *)
(* callscrn_num_to_string writes exactly                                   *)
(* min(2 * num_buf_len, string_buf_len - 1) characters, character j being  *)
(* the lookup of nibble j (10 gives '0', 0 gives NUL, 14 gives 'E'), then  *)
(* one NUL; no nibble value stops it early and it writes no more than      *)
(* string_buf_len bytes.                                                   *)
C6_CallscrnWritesWithinCapacity ==
    (pc \in {"callscrn_done", "fault"} /\ frame.fn = "callscrn_num_to_string"
        /\ frame.string_buf_len >= 1) =>
        LET nibs == Nibbles(frame.num_buf)
            m    == Min(2 * frame.num_buf_len, frame.string_buf_len - 1)
        IN  /\ pc = "callscrn_done"
            /\ frame.string_buf = [n \in 1..m |-> LutChar(nibs[n])] \o <<0>>
            /\ Len(frame.string_buf) <= frame.string_buf_len

(* The same statement for every string_buf_len >= 2, where it holds.       *)
Callscrn_HoldsFromCapacityTwo ==
    (pc \in {"callscrn_done", "fault"} /\ frame.fn = "callscrn_num_to_string"
        /\ frame.string_buf_len >= 2) =>
        LET nibs == Nibbles(frame.num_buf)
            m    == Min(2 * frame.num_buf_len, frame.string_buf_len - 1)
        IN  /\ pc = "callscrn_done"
            /\ frame.string_buf = [n \in 1..m |-> LutChar(nibs[n])] \o <<0>>
            /\ Len(frame.string_buf) <= frame.string_buf_len

---------------------------------------------------------------------------
(* string_to_bcd_a, src/mm_util.c:103-130                                  *)

(* uint8_t holds 0..UINT8_MAX: the loop counter i and buff_len.            *)
UINT8_MAX == 255

MaxDigits == 4

MaxBuffLen == 3

(* '0', '1', '2', '9'                                                      *)
DigitChars == {48, 49, 50, 57}

(* The digits 1234567890 repeated, n characters.                           *)
LongDigits(n) == [k \in 1..n |-> 48 + (k % 10)]

(* Strings and buffer sizes around the range of the uint8_t counter.       *)
LongLens == {UINT8_MAX - 1, UINT8_MAX, UINT8_MAX + 1, UINT8_MAX + 2}

LongBuffLens == {UINT8_MAX \div 2, UINT8_MAX \div 2 + 1, UINT8_MAX}

(* The caller's buffer before the call holds anything: all 0x00, all 0xFF. *)
string_to_bcd_a_Frame(number_string, buff_len, fill) ==
    [fn |-> "string_to_bcd_a", number_string |-> number_string,
     buffer |-> [k \in 1..buff_len |-> fill], buff_len |-> buff_len,
     i |-> 0, ret |-> -1]

string_to_bcd_a_Init ==
    /\ pc = "bcd_memset"
    /\ \/ \E s \in SeqsUpTo(DigitChars, MaxDigits), n \in 0..MaxBuffLen, fill \in {0, 255} :
             frame = string_to_bcd_a_Frame(s, n, fill)
       \/ \E l \in LongLens, n \in LongBuffLens :
             frame = string_to_bcd_a_Frame(LongDigits(l), n, 255)

(* memset(buffer, 0, buff_len); i = 0                                      *)
bcd_memset ==
    /\ pc = "bcd_memset"
    /\ frame' = [frame EXCEPT !.buffer = [k \in 1..frame.buff_len |-> 0], !.i = 0]
    /\ pc' = "bcd_for"

(* The loop condition: i promotes to size_t and to int without change.     *)
bcd_cond(f) == f.i < Len(f.number_string) /\ f.i < f.buff_len * 2

(* A body that encodes '0' as nibble 0.                                    *)
bcd_body_plain_zero(f) ==
    LET c   == f.number_string[f.i + 1]
        idx == Shr(f.i, 1) + 1
    IN  IF f.i % 2 = 0
        THEN [f EXCEPT !.buffer[idx] = Shl(c - 48, 4) % 256]
        ELSE [f EXCEPT !.buffer[idx] = BitOr(@, (c - 48) % 256)]

(* The loop body: the store into buffer[i >> 1], a uint8_t.                *)
bcd_body(f) ==
    LET c   == f.number_string[f.i + 1]
        idx == Shr(f.i, 1) + 1
    IN  IF f.i % 2 = 0
        THEN IF c = 48 THEN [f EXCEPT !.buffer[idx] = 160]
                       ELSE [f EXCEPT !.buffer[idx] = Shl(c - 48, 4) % 256]
        ELSE IF c = 48 THEN [f EXCEPT !.buffer[idx] = BitOr(@, 10)]
                       ELSE [f EXCEPT !.buffer[idx] = BitOr(@, (c - 48) % 256)]

(* One iteration, then i++ on the uint8_t i.                               *)
bcd_for ==
    /\ pc = "bcd_for"
    /\ bcd_cond(frame)
    /\ frame' = [bcd_body(frame) EXCEPT !.i = (@ + 1) % (UINT8_MAX + 1)]
    /\ pc' = "bcd_for"

(* return (i);                                                             *)
bcd_return ==
    /\ pc = "bcd_for"
    /\ ~bcd_cond(frame)
    /\ frame' = [frame EXCEPT !.ret = frame.i]
    /\ pc' = "bcd_done"

string_to_bcd_a_Next == bcd_memset \/ bcd_for \/ bcd_return

Spec_string_to_bcd_a == string_to_bcd_a_Init /\ [][string_to_bcd_a_Next]_vars

(* The program runs on while it has a step to take.                        *)
FairSpec_string_to_bcd_a ==
    Spec_string_to_bcd_a /\ WF_vars(string_to_bcd_a_Next)

(* C4: on return from string_to_bcd_a on a digit string s, nibble n of the *)
(* buffer is 0xA where s[n] is '0' and s[n] - '0' otherwise, for each      *)
(* n < min(len(s), 2 * buff_len); every other nibble of the buffer is 0;   *)
(* and the value returned is min(len(s), 2 * buff_len).                    *)
C4_BcdEncodesZeroAsA ==
    pc = "bcd_done" =>
        LET s    == frame.number_string
            used == Min(Len(s), 2 * frame.buff_len)
            nibs == Nibbles(frame.buffer)
        IN  /\ Len(frame.buffer) = frame.buff_len
            /\ \A n \in 1..(2 * frame.buff_len) :
                  nibs[n] = IF n > used THEN 0
                            ELSE IF s[n] = 48 THEN 10
                            ELSE s[n] - 48
            /\ frame.ret = used

(* string_to_bcd_a has returned from a string holding '0' at an even and   *)
(* at an odd place, with one nibble of the buffer left over.               *)
C4_Witness ==
    /\ pc = "bcd_done"
    /\ frame.number_string = <<48, 48, 57>>
    /\ frame.buffer = <<170, 144>>
    /\ frame.ret = 3

(* C5: string_to_bcd_a terminates for every input string and every         *)
(* buff_len in 0..255.                                                     *)
C5_BcdTerminates == <>(pc = "bcd_done")

---------------------------------------------------------------------------
(* print_bits, src/mm_util.c:220-230, on the label tables of mm_carrier.c  *)

str_cb ==
    <<"CARCD101XXXX", "SPEC_PROMPT", "COIN_CASH_CD", "ALT_BONG_TMO",
      "DLY_AFT_BONG", "INTRA_TO_LEC", "OUTDIAL_STR", "FEAT_GROUP_B">>

str_cb2 ==
    <<"FGB_PROMPT", "RM_PFX_LCL", "RM_PFX_INTRA", "RM_PFX_INTER",
      "RM_PFX_INT'L", "RM_PFX_DA", "RM_PFX_1800", "CB2_SPARE">>

(* stdout holds the labels printed, each followed by " | " in the output.  *)
print_bits_Init ==
    /\ pc = "print_bits_while"
    /\ \E bits \in 0..UINT8_MAX, str_array \in {str_cb, str_cb2} :
          frame = [fn |-> "print_bits", arg |-> bits, bits |-> bits,
                   str_array |-> str_array, i |-> 0, stdout |-> <<>>]

(* A body that shifts before it tests the low bit.                         *)
print_bits_body_shift_first(f) ==
    [f EXCEPT !.stdout = IF BitAnd(Shr(f.bits, 1), 1) # 0
                         THEN Append(@, f.str_array[f.i + 1]) ELSE @,
              !.bits = Shr(@, 1),
              !.i = @ + 1]

(* The loop body: print the label of a set low bit, bits >>= 1, i++.       *)
print_bits_body(f) ==
    [f EXCEPT !.stdout = IF BitAnd(f.bits, 1) # 0
                         THEN Append(@, f.str_array[f.i + 1]) ELSE @,
              !.bits = Shr(@, 1),
              !.i = @ + 1]

print_bits_while ==
    /\ pc = "print_bits_while"
    /\ frame.bits # 0
    /\ frame' = print_bits_body(frame)
    /\ pc' = "print_bits_while"

print_bits_return ==
    /\ pc = "print_bits_while"
    /\ frame.bits = 0
    /\ pc' = "print_bits_done"
    /\ UNCHANGED frame

print_bits_Next == print_bits_while \/ print_bits_return

Spec_print_bits == print_bits_Init /\ [][print_bits_Next]_vars

(* The program runs on while it has a step to take.                        *)
FairSpec_print_bits == Spec_print_bits /\ WF_vars(print_bits_Next)

(* The labels of the set bits of a byte, bit 0 first.                      *)
RECURSIVE SetBitLabels(_, _, _)
SetBitLabels(byte, labels, k) ==
    IF k > 7 THEN <<>>
    ELSE (IF (byte \div (2 ^ k)) % 2 = 1 THEN <<labels[k + 1]>> ELSE <<>>)
         \o SetBitLabels(byte, labels, k + 1)

print_bits_InBounds ==
    frame.fn = "print_bits" =>
        /\ frame.i \in 0..8
        /\ (pc = "print_bits_while" /\ frame.bits # 0) => frame.i <= 7
        /\ pc = "print_bits_done" =>
              frame.stdout = SetBitLabels(frame.arg, frame.str_array, 0)

(* C8: for every byte 0..255 and an 8-entry label table, print_bits emits  *)
(* exactly the labels of the set bits, each once, in ascending bit order   *)
(* (nothing for 0, all eight for 0xFF); the loop terminates and reads the  *)
(* table at no index above 7.                                              *)
C8_PrintBitsEmitsSetBits ==
    /\ []print_bits_InBounds
    /\ <>(pc = "print_bits_done")

(* print_bits has returned from 0xFF with all eight labels printed.        *)
C8_Witness ==
    /\ pc = "print_bits_done"
    /\ frame.arg = 255
    /\ frame.stdout = frame.str_array
    /\ frame.i = 8

---------------------------------------------------------------------------
(* call_type_to_string, src/mm_util.c:161-218                              *)

call_type_str ==
    <<"Incoming", "Unanswered", "Abandoned", "Local", "Intra-LATA",
      "Inter-LATA", "Internatonal", "Operator", "Zero+", "1-800",
      "Directory Assistance", "Denied", "Unassigned", "Unassigned2",
      "e-Purse", "Unknown">>

pmt_type_str ==
    <<"Unused0", "Unused1", "No Charge", "Coin", "Credit Card",
      "Calling Card", "Cash Card", "Inmate", "Mondex", "Visa Stored Value",
      "Smart City", "Proton", "UndefinedC", "UndefinedD", "UndefinedE",
      "UndefinedF">>

MaxCallTypeBufLen == 40

(* string_buf is the text stored in the caller's buffer and stored the     *)
(* number of bytes stored there, the terminating NUL included.             *)
call_type_to_string_Init ==
    /\ pc = "call_type_to_string"
    /\ \E call_type \in 0..UINT8_MAX, string_buf_len \in 0..MaxCallTypeBufLen :
          frame = [fn |-> "call_type_to_string", call_type |-> call_type,
                   string_buf |-> "", stored |-> 0,
                   string_buf_len |-> string_buf_len,
                   len_call_type |-> 0, len_pmt_type |-> 0, ret |-> "none"]

(* The two strlen calls.                                                   *)
call_type_lengths(f) ==
    [f EXCEPT !.len_call_type = Len(call_type_str[BitAnd(f.call_type, 15) + 1]),
              !.len_pmt_type = Len(pmt_type_str[Shr(f.call_type, 4) + 1])]

(* if ((len_call_type + len_pmt_type + 1) > string_buf_len) return NULL;   *)
call_type_reject ==
    /\ pc = "call_type_to_string"
    /\ LET f == call_type_lengths(frame)
       IN  /\ (f.len_call_type + f.len_pmt_type + 1) > f.string_buf_len
           /\ frame' = [f EXCEPT !.ret = "NULL"]
    /\ pc' = "call_type_done"

(* sprintf(string_buf, "%s %s", ...): the text and its NUL.                *)
call_type_sprintf(f) ==
    LET text == call_type_str[BitAnd(f.call_type, 15) + 1] \o " "
                \o pmt_type_str[Shr(f.call_type, 4) + 1]
    IN  [f EXCEPT !.string_buf = text, !.stored = Len(text) + 1,
                  !.ret = "string_buf"]

(* The check passed: sprintf and return string_buf.  A store past the      *)
(* caller's buffer lands after it, or a build that checks object sizes     *)
(* stops the program.                                                      *)
call_type_format ==
    /\ pc = "call_type_to_string"
    /\ LET f == call_type_lengths(frame)
           g == call_type_sprintf(f)
       IN  /\ ~((f.len_call_type + f.len_pmt_type + 1) > f.string_buf_len)
           /\ \/ /\ frame' = g
                 /\ pc' = "call_type_done"
              \/ /\ g.stored > g.string_buf_len
                 /\ frame' = f
                 /\ pc' = "fault"

call_type_to_string_Next == call_type_reject \/ call_type_format

Spec_call_type_to_string ==
    call_type_to_string_Init /\ [][call_type_to_string_Next]_vars

(* The rendered text of a call-type byte, as the claim states it.          *)
CallTypeText(b) ==
    call_type_str[(b % 16) + 1] \o " " \o pmt_type_str[(b \div 16) + 1]

(* C2: for every call-type byte b and every capacity n, if the buffer      *)
(* cannot hold the text call_type_str[b & 0xF] + ' ' + pmt_type_str[b >> 4]*)
(* with its terminator, call_type_to_string returns NULL and writes        *)
(* nothing; otherwise it returns the buffer holding exactly that text; and *)
(* no byte is written at an index >= n.                                    *)
C2_CallTypeFitsOrFails ==
    (pc \in {"call_type_done", "fault"} /\ frame.fn = "call_type_to_string") =>
        LET text == CallTypeText(frame.call_type)
        IN  /\ pc = "call_type_done"
            /\ IF Len(text) + 1 > frame.string_buf_len
               THEN frame.ret = "NULL" /\ frame.stored = 0
               ELSE frame.ret = "string_buf" /\ frame.string_buf = text
            /\ frame.stored <= frame.string_buf_len

(* The same statement for every capacity but the one that is exactly the   *)
(* length of the text, where it holds.                                     *)
CallType_HoldsOffTheBoundary ==
    (pc \in {"call_type_done", "fault"} /\ frame.fn = "call_type_to_string"
        /\ frame.string_buf_len # Len(CallTypeText(frame.call_type))) =>
        LET text == CallTypeText(frame.call_type)
        IN  /\ pc = "call_type_done"
            /\ IF Len(text) + 1 > frame.string_buf_len
               THEN frame.ret = "NULL" /\ frame.stored = 0
               ELSE frame.ret = "string_buf" /\ frame.string_buf = text
            /\ frame.stored <= frame.string_buf_len

---------------------------------------------------------------------------
(* mm_convert_card_mtr2_to_mtr1, src/mm_convert_card_mtr2_to_mtr1.c:19-99  *)
(*                                                                         *)
(* mm_card.h, which declares the two tables, is not among the sources.     *)
(* What the converter needs of it is drawn by Init: the entry sizes        *)
(* sizeof(card_entry_mtr1_t) <= sizeof(card_entry_t), each 1..MaxEntrySize,*)
(* and small entry counts.  Tables are flat byte sequences, entry i of a   *)
(* table at offset i * (entry size).                                       *)

(* Entries of the target table, the bound of the conversion loop.          *)
CCARD_MAX_MTR1 == 2

(* Entries of the source table.                                            *)
CCARD_MAX == CCARD_MAX_MTR1 + 1

MaxEntrySize == 10

(* sizeof(pcard_mtr1), the size of a pointer: 32-bit and 64-bit builds.    *)
PointerSizes == {4, 8}

(* Contents of the input file: byte o of it.                               *)
CardFileFills == {"count", "zero", "ones"}

CardFileByte(fill, o) ==
    IF fill = "count" THEN 1 + (o % 251) ELSE IF fill = "zero" THEN 0 ELSE 255

convert_Init ==
    /\ pc = "conv_main"
    /\ \E argc \in 1..3, ptr \in PointerSizes, fill \in CardFileFills,
          t \in 1..MaxEntrySize, d \in {-1, 0, 1} :
          \E e \in t..MaxEntrySize :
             /\ argc = 3 \/ (ptr = 4 /\ fill = "count" /\ t = 1 /\ e = 1 /\ d = 0)
             /\ frame = [fn |-> "mm_convert_card_mtr2_to_mtr1", argc |-> argc,
                         sizeof_pcard_mtr1 |-> ptr,
                         sizeof_card_entry_mtr1_t |-> t,
                         sizeof_card_entry_t |-> e,
                         instream |-> [o \in 1..(CCARD_MAX * e + d) |->
                                          CardFileByte(fill, o - 1)],
                         pcard_table_mtr2 |-> <<>>, pcard_table_mtr1 |-> <<>>,
                         heap_after_mtr1 |-> <<>>,
                         index |-> 0, ostream |-> "NULL", outfile |-> <<>>,
                         ret |-> "running"]

(* if (argc <= 2) { usage; return -1; }                                    *)
conv_usage ==
    /\ pc = "conv_main"
    /\ frame.argc <= 2
    /\ frame' = [frame EXCEPT !.ret = "-1"]
    /\ pc' = "conv_done"

(* The two calloc calls: zeroed tables, or -ENOMEM.                        *)
conv_calloc ==
    /\ pc = "conv_main"
    /\ ~(frame.argc <= 2)
    /\ \/ /\ frame' = [frame EXCEPT
                !.pcard_table_mtr2 =
                    [o \in 1..(CCARD_MAX * frame.sizeof_card_entry_t) |-> 0],
                !.pcard_table_mtr1 =
                    [o \in 1..(CCARD_MAX_MTR1 * frame.sizeof_card_entry_mtr1_t) |-> 0]]
          /\ pc' = "conv_fopen"
       \/ /\ frame' = [frame EXCEPT !.ret = "-ENOMEM"]
          /\ pc' = "conv_done"

(* fopen(argv[1], "rb"): the file opens, or -ENOENT.                       *)
conv_fopen ==
    /\ pc = "conv_fopen"
    /\ \/ /\ pc' = "conv_fread"
          /\ UNCHANGED frame
       \/ /\ frame' = [frame EXCEPT !.ret = "-ENOENT"]
          /\ pc' = "conv_done"

(* fread of one whole source table: a shorter file gives -EIO.             *)
conv_fread ==
    /\ pc = "conv_fread"
    /\ LET size == CCARD_MAX * frame.sizeof_card_entry_t
       IN  IF Len(frame.instream) >= size
           THEN /\ frame' = [frame EXCEPT
                      !.pcard_table_mtr2 = SubSeq(frame.instream, 1, size),
                      !.index = 0]
                /\ pc' = "conv_for"
           ELSE /\ frame' = [frame EXCEPT !.ret = "-EIO"]
                /\ pc' = "conv_done"

(* The byte at an offset from the start of the source table; -1 stands for *)
(* a byte of whatever follows the table in memory.                         *)
Mtr2Byte(f, o) ==
    IF o < Len(f.pcard_table_mtr2) THEN f.pcard_table_mtr2[o + 1] ELSE -1

(* memcpy_s(pcard_mtr1, sizeof(pcard_mtr1), pcard_mtr2, sizeof(pcard_mtr1)):*)
(* count bytes from the start of source entry index to the start of target *)
(* entry index; bytes stored past the target table go to heap_after_mtr1.  *)
conv_memcpy(f, count) ==
    LET from == f.index * f.sizeof_card_entry_t
        to   == f.index * f.sizeof_card_entry_mtr1_t
        size == Len(f.pcard_table_mtr1)
    IN  [f EXCEPT
            !.pcard_table_mtr1 =
                [o \in 1..size |->
                    IF (o - 1) >= to /\ (o - 1) < to + count
                    THEN Mtr2Byte(f, from + (o - 1 - to)) ELSE @[o]],
            !.heap_after_mtr1 =
                [o \in 1..(IF to + count > size THEN to + count - size ELSE 0) |->
                    Mtr2Byte(f, from + (size + o - 1 - to))]]

(* One iteration of the conversion loop.  A copy that runs past the target *)
(* table is undefined: it lands in the heap after the table, or a build    *)
(* that checks the heap stops the program.                                 *)
conv_for ==
    /\ pc = "conv_for"
    /\ frame.index < CCARD_MAX_MTR1
    /\ LET f == conv_memcpy(frame, frame.sizeof_pcard_mtr1)
       IN  \/ /\ frame' = [f EXCEPT !.index = @ + 1]
              /\ pc' = "conv_for"
           \/ /\ f.heap_after_mtr1 # <<>>
              /\ frame' = frame
              /\ pc' = "fault"

(* After the loop: fopen(argv[2], "wb"), or -ENOENT.                       *)
conv_fopen_out ==
    /\ pc = "conv_for"
    /\ ~(frame.index < CCARD_MAX_MTR1)
    /\ \/ /\ frame' = [frame EXCEPT !.ostream = "open"]
          /\ pc' = "conv_fwrite"
       \/ /\ frame' = [frame EXCEPT !.ret = "-ENOENT"]
          /\ pc' = "conv_done"

(* fwrite of the whole target table, or -EIO; fclose; free; return ret.    *)
conv_fwrite ==
    /\ pc = "conv_fwrite"
    /\ \/ frame' = [frame EXCEPT !.outfile = frame.pcard_table_mtr1,
                                   !.ostream = "closed", !.ret = "0"]
       \/ frame' = [frame EXCEPT !.ostream = "closed", !.ret = "-EIO"]
    /\ pc' = "conv_done"

convert_Next ==
    \/ conv_usage
    \/ conv_calloc
    \/ conv_fopen
    \/ conv_fread
    \/ conv_for
    \/ conv_fopen_out
    \/ conv_fwrite

Spec_convert == convert_Init /\ [][convert_Next]_vars

(* The conversion loop has run to its end.                                 *)
ConvLoopDone ==
    /\ frame.fn = "mm_convert_card_mtr2_to_mtr1"
    /\ \/ pc = "conv_for" /\ frame.index = CCARD_MAX_MTR1
       \/ pc = "conv_fwrite"
       \/ pc = "conv_done" /\ frame.ostream = "closed"

(* Entry i of a flat table of entries of the given size.                   *)
EntryOf(table, size, i) == SubSeq(table, i * size + 1, (i + 1) * size)

(* C1: after the conversion loop, for every entry index i below            *)
(* CCARD_MAX_MTR1, target entry i equals the first                         *)
(* sizeof(card_entry_mtr1_t) bytes of source entry i, so the whole target  *)
(* entry is filled from the start of the source entry and holds no source  *)
(* byte from an offset beyond the target entry size; the file written is   *)
(* that table.                                                             *)
C1_TargetEntryIsSourcePrefix ==
    ConvLoopDone =>
        /\ \A i \in 0..(CCARD_MAX_MTR1 - 1) :
              EntryOf(frame.pcard_table_mtr1, frame.sizeof_card_entry_mtr1_t, i)
                = SubSeq(EntryOf(frame.pcard_table_mtr2, frame.sizeof_card_entry_t, i),
                         1, frame.sizeof_card_entry_mtr1_t)
        /\ frame.ret = "0" => frame.outfile = frame.pcard_table_mtr1

(* The same statement for target entries no larger than a pointer, where   *)
(* it holds: the bytes of a target entry past the size of a pointer are    *)
(* the ones the loop leaves as calloc set them.                            *)
Convert_HoldsUpToPointerSize ==
    (ConvLoopDone /\ frame.sizeof_card_entry_mtr1_t <= frame.sizeof_pcard_mtr1) =>
        /\ \A i \in 0..(CCARD_MAX_MTR1 - 1) :
              EntryOf(frame.pcard_table_mtr1, frame.sizeof_card_entry_mtr1_t, i)
                = SubSeq(EntryOf(frame.pcard_table_mtr2, frame.sizeof_card_entry_t, i),
                         1, frame.sizeof_card_entry_mtr1_t)
        /\ frame.ret = "0" => frame.outfile = frame.pcard_table_mtr1

---------------------------------------------------------------------------
(* mm_carrier, src/src/mm_carrier.c:210-339                                *)
(*                                                                         *)
(* mm_manager.h, which declares dlog_mt_carrier_table_t and                *)
(* mm_validate_table_fsize, is not among the sources.  The table is laid   *)
(* out as the specification gives it, packed: one id byte, the default     *)
(* carrier bytes, the carrier entries of 33 bytes each                     *)
(* (carrier_ref:u8, carrier_num:u16, valid_cards:u32,                      *)
(* display_prompt:char[20], control_byte2:u8, control_byte:u8,             *)
(* fgb_timer:u16, international_accept_flags:u8, call_entry:u8), then the  *)
(* spare bytes.  The table is a flat byte sequence, ptable[o + 1] the byte *)
(* at offset o.                                                            *)

(* The entries of str_default_carrier[].                                   *)
DEFAULT_CARRIERS_MAX == 9

(* Carrier entries of the table: one more than new_carriers[] holds.       *)
CARRIER_TABLE_MAX_CARRIERS == 11

(* sizeof(ptable->spare)                                                   *)
SpareLen == 2

(* sizeof(carrier_table_entry_t)                                           *)
CarrierEntrySize == 1 + 2 + 4 + 20 + 1 + 1 + 2 + 1 + 1

(* sizeof(dlog_mt_carrier_table_t)                                         *)
CarrierTableSize ==
    1 + DEFAULT_CARRIERS_MAX + CARRIER_TABLE_MAX_CARRIERS * CarrierEntrySize + SpareLen

(* Offsets in the table and in an entry.                                   *)
CarrierOffset(k) == 1 + DEFAULT_CARRIERS_MAX + k * CarrierEntrySize

SpareOffset == CarrierOffset(CARRIER_TABLE_MAX_CARRIERS)

OffCarrierRef == 0

OffCarrierNum == 1

OffValidCards == 3

OffDisplayPrompt == 7

OffControlByte2 == 27

OffControlByte == 28

OffFgbTimer == 29

OffIntlAcceptFlags == 31

OffCallEntry == 32

(* The fields of carrier[k] of a table, on a little-endian host.           *)
CarrierByte(t, k, off) == t[CarrierOffset(k) + off + 1]

CarrierPrompt(t, k) ==
    SubSeq(t, CarrierOffset(k) + OffDisplayPrompt + 1,
              CarrierOffset(k) + OffDisplayPrompt + 20)

(* A byte read through a plain char: negative from 0x80 up where char is   *)
(* signed.                                                                 *)
AsChar(byte, char_signed) ==
    IF char_signed /\ byte >= 128 THEN byte - 256 ELSE byte

(* The display prompts of new_carriers[].                                  *)
new_carrier_prompts ==
    <<
      <<67, 48, 32, 80, 73, 67, 32, 32, 73, 110, 116, 101, 114, 45, 76, 65, 84, 65, 32, 32>>,
      <<67, 49, 32, 67, 111, 105, 110, 32, 73, 110, 116, 101, 114, 45, 76, 65, 84, 65, 32, 32>>,
      <<67, 50, 32, 67, 97, 114, 100, 32, 73, 110, 116, 101, 114, 45, 76, 65, 84, 65, 32, 32>>,
      <<67, 51, 32, 80, 73, 67, 32, 32, 73, 110, 116, 114, 97, 45, 76, 65, 84, 65, 32, 32>>,
      <<67, 52, 32, 67, 111, 105, 110, 32, 73, 110, 116, 114, 97, 45, 76, 65, 84, 65, 32, 32>>,
      <<67, 53, 32, 67, 97, 114, 100, 32, 73, 110, 116, 114, 97, 45, 76, 65, 84, 65, 32, 32>>,
      <<67, 54, 32, 80, 73, 67, 32, 32, 76, 111, 99, 97, 108, 32, 32, 32, 32, 32, 32, 32>>,
      <<67, 55, 32, 67, 111, 105, 110, 32, 76, 111, 99, 97, 108, 32, 32, 32, 32, 32, 32, 32>>,
      <<67, 56, 32, 67, 97, 114, 100, 32, 76, 111, 99, 97, 108, 32, 32, 32, 32, 32, 32, 32>>,
      <<67, 65, 82, 82, 73, 69, 82, 32, 57, 32, 32, 32, 32, 32, 32, 32, 32, 32, 32, 32>>
    >>

(* new_carriers[k] as its 33 bytes: carrier_ref k, carrier_num 0,          *)
(* valid_cards 0x00003fff, the prompt, CB2_VAL (the six RM_PFX bits),      *)
(* SPEC_PROMPT | COIN_CASH_CD, fgb_timer 500, flags 0, call_entry 0.       *)
new_carriers ==
    [k \in 1..10 |->
        <<k - 1, 0, 0, 255, 63, 0, 0>> \o new_carrier_prompts[k]
        \o <<126, 6, 244, 1, 0, 0>>]

(* A carrier entry as its 33 bytes.                                        *)
CarrierEntryBytes(ref, prompt, cb2, cb, call_entry) ==
    <<ref, 1, 2, 255, 63, 0, 0>> \o prompt \o <<cb2, cb, 244, 1, 0, call_entry>>

(* Prompts of the input tables: a leading byte below space, at space, a    *)
(* letter, DEL, 0x80 and 0xFF, and a letter followed by a NUL.             *)
PromptWithLead(lead) == <<lead>> \o [n \in 1..19 |-> IF n < 8 THEN 64 + n ELSE 32]

PromptWithNul == <<65, 66, 0>> \o [n \in 1..17 |-> 67]

InputPrompts ==
    { PromptWithLead(lead) : lead \in {0, 31, 32, 65, 127, 128, 255} }
    \cup { PromptWithNul }

(* Input files: every entry unused (all zero) or in use, but one entry,    *)
(* the first or the last, whose reference, call entry and prompt vary (the *)
(* prompt with a NUL in it is tried in the last entry).                    *)
FillerEntry(kind, k) ==
    IF kind = "unused" THEN [n \in 1..CarrierEntrySize |-> 0]
    ELSE CarrierEntryBytes(k + 1, PromptWithLead(48 + k), 126, 6, k)

RECURSIVE CarrierEntriesFrom(_, _, _, _)
CarrierEntriesFrom(k, kind, at, special) ==
    IF k >= CARRIER_TABLE_MAX_CARRIERS THEN <<>>
    ELSE (IF k = at THEN special ELSE FillerEntry(kind, k))
         \o CarrierEntriesFrom(k + 1, kind, at, special)

CarrierFile(kind, at, special, extra) ==
    LET whole == [n \in 1..DEFAULT_CARRIERS_MAX |-> n]
                 \o CarrierEntriesFrom(0, kind, at, special)
                 \o [n \in 1..SpareLen |-> 160 + n]
    IN  IF extra < 0 THEN SubSeq(whole, 1, Len(whole) + extra)
        ELSE whole \o [n \in 1..extra |-> 238]

carrier_Init ==
    /\ pc = "carrier_main"
    /\ \E argc \in 1..3, char_signed \in BOOLEAN, kind \in {"unused", "used"},
          at \in {0, CARRIER_TABLE_MAX_CARRIERS - 1},
          ref \in {0, 1}, call_entry \in {0, 5}, prompt \in InputPrompts,
          extra \in {-1, 0, 1} :
          /\ (argc = 1 \/ extra # 0) =>
                (kind = "used" /\ at = 0 /\ ref = 1 /\ call_entry = 5
                    /\ prompt = PromptWithLead(65))
          /\ prompt = PromptWithNul => at # 0
          /\ frame = [fn |-> "mm_carrier", argc |-> argc, char_signed |-> char_signed,
                      instream |-> CarrierFile(kind, at,
                                       CarrierEntryBytes(ref, prompt, 129, 6, call_entry),
                                       extra),
                      instream_pos |-> 0, validated |-> FALSE,
                      ptable |-> <<>>, carrier_index |-> 0,
                      stdout |-> <<>>, ostream |-> "NULL", outfile |-> <<>>,
                      ret |-> "running"]

(* if (argc <= 1) { usage; return -1; }                                    *)
carrier_usage ==
    /\ pc = "carrier_main"
    /\ frame.argc <= 1
    /\ frame' = [frame EXCEPT !.ret = "-1"]
    /\ pc' = "carrier_done"

(* The banner, then calloc of the table: zeroed, or -ENOMEM.               *)
carrier_calloc ==
    /\ pc = "carrier_main"
    /\ ~(frame.argc <= 1)
    /\ LET f == [frame EXCEPT !.stdout = Append(@, [kind |-> "banner"])]
       IN  \/ /\ frame' = [f EXCEPT !.ptable = [o \in 1..CarrierTableSize |-> 0]]
              /\ pc' = "carrier_fopen"
           \/ /\ frame' = [f EXCEPT !.ret = "-ENOMEM"]
              /\ pc' = "carrier_done"

(* fopen(argv[1], "rb"): the file opens, or -ENOENT.                       *)
carrier_fopen ==
    /\ pc = "carrier_fopen"
    /\ \/ /\ pc' = "carrier_validate"
          /\ UNCHANGED frame
       \/ /\ frame' = [frame EXCEPT !.ret = "-ENOENT"]
          /\ pc' = "carrier_done"

(* mm_validate_table_fsize(table_id, instream, expected): 0 when the file  *)
(* has exactly the expected size; it reads no byte of the file.            *)
mm_validate_table_fsize(instream, expected) ==
    IF Len(instream) = expected THEN 0 ELSE -1

(* A validation step that goes on to read whatever the size of the file.   *)
carrier_validate_any_size ==
    /\ pc = "carrier_validate"
    /\ frame' = [frame EXCEPT !.validated = TRUE]
    /\ pc' = "carrier_fread"

(* if (mm_validate_table_fsize(...) != 0) { free; fclose; return -EIO; }   *)
carrier_validate ==
    /\ pc = "carrier_validate"
    /\ IF mm_validate_table_fsize(frame.instream, CarrierTableSize - 1) # 0
       THEN /\ frame' = [frame EXCEPT !.ret = "-EIO"]
            /\ pc' = "carrier_done"
       ELSE /\ frame' = [frame EXCEPT !.validated = TRUE]
            /\ pc' = "carrier_fread"

(* load_buffer is ptable plus one byte; fread of sizeof(table) - 1 bytes   *)
(* there.  A short file or a read error gives -EIO.                        *)
carrier_fread ==
    /\ pc = "carrier_fread"
    /\ LET size == CarrierTableSize - 1
           got  == Min(size, Len(frame.instream))
           f    == [frame EXCEPT
                       !.ptable = [o \in 1..CarrierTableSize |->
                                      IF o >= 2 /\ o <= got + 1
                                      THEN frame.instream[o - 1] ELSE @[o]],
                       !.instream_pos = got]
       IN  \/ /\ got = size
              /\ frame' = f
              /\ pc' = "carrier_defaults"
           \/ /\ frame' = [f EXCEPT !.ret = "-EIO"]
              /\ pc' = "carrier_done"

(* fclose; the default carrier lines and the head of the table.            *)
carrier_defaults ==
    /\ pc = "carrier_defaults"
    /\ frame' = [frame EXCEPT
                    !.stdout = @ \o [i \in 1..DEFAULT_CARRIERS_MAX |->
                                       [kind |-> "default", i |-> i - 1,
                                        value |-> frame.ptable[1 + i]]],
                    !.carrier_index = 0]
    /\ pc' = "carrier_for"

(* print_bits(bits, str_array): what it prints.                            *)
RECURSIVE print_bits_run(_)
print_bits_run(f) == IF f.bits = 0 THEN f ELSE print_bits_run(print_bits_body(f))

print_bits(bits, str_array) ==
    print_bits_run([bits |-> bits, str_array |-> str_array, i |-> 0,
                    stdout |-> <<>>]).stdout

(* What printf("%s") shows of a char array: the bytes before its first NUL.*)
RECURSIVE PrintfS(_)
PrintfS(str) ==
    IF str = <<>> \/ Head(str) = 0 THEN <<>> ELSE <<Head(str)>> \o PrintfS(Tail(str))

(* The table row printed for carrier[k] with the prompt string given.      *)
CarrierRow(t, k, display_prompt_string) ==
    [kind |-> "carrier", carrier_index |-> k,
     carrier_ref |-> CarrierByte(t, k, OffCarrierRef),
     carrier_num |-> CarrierByte(t, k, OffCarrierNum) * 256
                     + CarrierByte(t, k, OffCarrierNum + 1),
     valid_cards |-> CarrierByte(t, k, OffValidCards)
                     + CarrierByte(t, k, OffValidCards + 1) * 256
                     + CarrierByte(t, k, OffValidCards + 2) * 65536
                     + CarrierByte(t, k, OffValidCards + 3) * 16777216,
     display_prompt |-> PrintfS(display_prompt_string),
     control_byte2 |-> CarrierByte(t, k, OffControlByte2),
     control_byte |-> CarrierByte(t, k, OffControlByte),
     fgb_timer |-> CarrierByte(t, k, OffFgbTimer)
                   + CarrierByte(t, k, OffFgbTimer + 1) * 256,
     international_accept_flags |-> CarrierByte(t, k, OffIntlAcceptFlags),
     call_entry |-> CarrierByte(t, k, OffCallEntry),
     flags |-> print_bits(CarrierByte(t, k, OffControlByte2), str_cb2)
               \o print_bits(CarrierByte(t, k, OffControlByte), str_cb)]

(* One iteration of the report loop: the prompt is copied when its leading *)
(* char is >= 0x20; otherwise the entry is skipped when carrier_ref and    *)
(* call_entry are 0, and shown with a blank prompt when not.               *)
carrier_for ==
    /\ pc = "carrier_for"
    /\ frame.carrier_index < CARRIER_TABLE_MAX_CARRIERS
    /\ LET k      == frame.carrier_index
           t      == frame.ptable
           prompt == CarrierPrompt(t, k)
           blank  == [n \in 1..20 |-> 32] \o <<0>>
       IN  IF AsChar(prompt[1], frame.char_signed) >= 32
           THEN frame' = [frame EXCEPT
                             !.stdout = Append(@, CarrierRow(t, k, prompt \o <<0>>)),
                             !.carrier_index = @ + 1]
           ELSE IF CarrierByte(t, k, OffCarrierRef) = 0
                   /\ CarrierByte(t, k, OffCallEntry) = 0
           THEN frame' = [frame EXCEPT !.carrier_index = @ + 1]
           ELSE frame' = [frame EXCEPT
                             !.stdout = Append(@, CarrierRow(t, k, blank)),
                             !.carrier_index = @ + 1]
    /\ pc' = "carrier_for"

(* After the loop: the spare bytes.                                        *)
carrier_spare ==
    /\ pc = "carrier_for"
    /\ ~(frame.carrier_index < CARRIER_TABLE_MAX_CARRIERS)
    /\ frame' = [frame EXCEPT
                    !.stdout = Append(@, [kind |-> "spare",
                                          bytes |-> SubSeq(frame.ptable, SpareOffset + 1,
                                                           SpareOffset + SpareLen)])]
    /\ pc' = "carrier_fopen_out"

(* if (argc > 2) fopen(argv[2], "wb"), or -ENOENT.                         *)
carrier_fopen_out ==
    /\ pc = "carrier_fopen_out"
    /\ IF frame.argc > 2
       THEN \/ /\ frame' = [frame EXCEPT !.ostream = "open"]
               /\ pc' = "carrier_rewrite"
            \/ /\ frame' = [frame EXCEPT !.ret = "-ENOENT"]
               /\ pc' = "carrier_done"
       ELSE /\ pc' = "carrier_rewrite"
            /\ UNCHANGED frame

(* The bytes of new_carriers[], one entry after the other.                 *)
RECURSIVE Flatten(_)
Flatten(seqs) == IF seqs = <<>> THEN <<>> ELSE Head(seqs) \o Flatten(Tail(seqs))

(* A rewrite that clears the whole table before it copies new_carriers.     *)
carrier_rewrite_clears_table ==
    /\ pc = "carrier_rewrite"
    /\ LET bytes == Flatten(new_carriers)
       IN  frame' = [frame EXCEPT
                        !.ptable = [o \in 1..CarrierTableSize |->
                            IF o - 1 >= CarrierOffset(0)
                               /\ o - 1 < CarrierOffset(0) + Len(bytes)
                            THEN bytes[o - CarrierOffset(0)]
                            ELSE 0]]
    /\ pc' = "carrier_fwrite"

(* defaults[i] = 0 for every i; memcpy(ptable->carrier, new_carriers,      *)
(* sizeof(new_carriers)).                                                  *)
carrier_rewrite ==
    /\ pc = "carrier_rewrite"
    /\ LET bytes == Flatten(new_carriers)
       IN  frame' = [frame EXCEPT
                        !.ptable = [o \in 1..CarrierTableSize |->
                            IF o - 1 >= 1 /\ o - 1 < 1 + DEFAULT_CARRIERS_MAX THEN 0
                            ELSE IF o - 1 >= CarrierOffset(0)
                                    /\ o - 1 < CarrierOffset(0) + Len(bytes)
                                 THEN bytes[o - CarrierOffset(0)]
                            ELSE @[o]]]
    /\ pc' = "carrier_fwrite"

(* if (ostream != NULL) fwrite(load_buffer, sizeof(table) - 1, 1, ostream),*)
(* or -EIO; fclose; free; return ret.                                      *)
carrier_fwrite ==
    /\ pc = "carrier_fwrite"
    /\ IF frame.ostream # "NULL"
       THEN \/ frame' = [frame EXCEPT
                            !.outfile = SubSeq(frame.ptable, 2, CarrierTableSize),
                            !.ostream = "closed", !.ret = "0"]
            \/ frame' = [frame EXCEPT !.ostream = "closed", !.ret = "-EIO"]
       ELSE frame' = [frame EXCEPT !.ret = "0"]
    /\ pc' = "carrier_done"

carrier_Next ==
    \/ carrier_usage
    \/ carrier_calloc
    \/ carrier_fopen
    \/ carrier_validate
    \/ carrier_fread
    \/ carrier_defaults
    \/ carrier_for
    \/ carrier_spare
    \/ carrier_fopen_out
    \/ carrier_rewrite
    \/ carrier_fwrite

Spec_carrier == carrier_Init /\ [][carrier_Next]_vars

CarrierErrors == {"-1", "-ENOMEM", "-ENOENT", "-EIO"}

(* C9: the size of the input is validated against                          *)
(* sizeof(dlog_mt_carrier_table_t) - 1 before any record byte is read.     *)
(* Until validation has succeeded no byte of the file has been read, the   *)
(* table holds no record byte, no default, entry or spare line has been    *)
(* printed and no output file is open or written; a file of another size   *)
(* ends the program with an error.  After validation the file is read into *)
(* the table from offset 1 on, and reporting and writing follow.           *)
C9_ValidateBeforeRead ==
    frame.fn = "mm_carrier" =>
        /\ ~frame.validated =>
              /\ frame.instream_pos = 0
              /\ \A o \in DOMAIN frame.ptable : frame.ptable[o] = 0
              /\ \A n \in DOMAIN frame.stdout : frame.stdout[n].kind = "banner"
              /\ frame.ostream = "NULL"
              /\ frame.outfile = <<>>
        /\ frame.validated =>
              mm_validate_table_fsize(frame.instream, CarrierTableSize - 1) = 0
        /\ (pc = "carrier_done" /\ Len(frame.instream) # CarrierTableSize - 1) =>
              frame.ret \in CarrierErrors /\ ~frame.validated
        /\ pc \in {"carrier_defaults", "carrier_for", "carrier_fopen_out"} =>
              frame.ptable = <<0>> \o frame.instream
        /\ frame.outfile # <<>> => Len(frame.outfile) = CarrierTableSize - 1

(* mm_carrier, asked for an output file, has ended with -EIO on a file one *)
(* byte too long, after the size check.                                    *)
C9_Witness ==
    /\ pc = "carrier_done"
    /\ frame.fn = "mm_carrier"
    /\ frame.argc = 3
    /\ Len(frame.stdout) = 1
    /\ Len(frame.ptable) = CarrierTableSize
    /\ Len(frame.instream) = CarrierTableSize
    /\ frame.ret = "-EIO"

(* The rows printed for carrier[k].                                        *)
RowsOf(k) ==
    { n \in DOMAIN frame.stdout :
        frame.stdout[n].kind = "carrier" /\ frame.stdout[n].carrier_index = k }

(* Entry k of the loaded table is reported as the claim says.              *)
ReportedAsClaimed(k) ==
    LET t      == frame.ptable
        prompt == CarrierPrompt(t, k)
        unused == /\ CarrierByte(t, k, OffCarrierRef) = 0
                  /\ CarrierByte(t, k, OffCallEntry) = 0
                  /\ prompt[1] < 32
    IN  IF unused THEN RowsOf(k) = {}
        ELSE /\ Cardinality(RowsOf(k)) = 1
             /\ \A n \in RowsOf(k) :
                   frame.stdout[n].display_prompt =
                       IF prompt[1] >= 32 THEN prompt ELSE [m \in 1..20 |-> 32]

(* C10: every carrier entry, whatever its bytes, is skipped if and only if *)
(* carrier_ref = 0, call_entry = 0 and the leading display_prompt byte is  *)
(* below 0x20; every other entry is reported, its 20 prompt bytes shown    *)
(* verbatim when the leading byte is 0x20 or above (0x80..0xFF included)   *)
(* and as 20 spaces only when it is below 0x20.                            *)
C10_SkipOnlyUnusedEntries ==
    (frame.fn = "mm_carrier" /\ pc = "carrier_for") =>
        \A k \in 0..(frame.carrier_index - 1) : ReportedAsClaimed(k)

(* The same statement for the entries whose prompt is 20 bytes of 0x01 to  *)
(* 0x7F, or whose leading byte is below 0x20: for them it holds.           *)
Carrier_ReportHoldsForAsciiPrompts ==
    (frame.fn = "mm_carrier" /\ pc = "carrier_for") =>
        \A k \in 0..(frame.carrier_index - 1) :
            LET prompt == CarrierPrompt(frame.ptable, k)
            IN  (prompt[1] < 32 \/ \A m \in 1..20 : prompt[m] \in 1..127)
                    => ReportedAsClaimed(k)

(* The same statement where plain char is unsigned and the prompt holds no *)
(* NUL after a leading byte of 0x20 or above.                              *)
Carrier_ReportHoldsForUnsignedChar ==
    (frame.fn = "mm_carrier" /\ pc = "carrier_for" /\ ~frame.char_signed) =>
        \A k \in 0..(frame.carrier_index - 1) :
            LET prompt == CarrierPrompt(frame.ptable, k)
            IN  (prompt[1] < 32 \/ \A m \in 1..20 : prompt[m] # 0)
                    => ReportedAsClaimed(k)

(* The byte the rewritten file is to hold n bytes in (n from 1), for the   *)
(* input file given: 0 in the default carriers, the byte of new_carriers   *)
(* in the entries it covers, the byte of the input in every later entry    *)
(* and in the spare bytes.                                                 *)
RewrittenByte(input, n) ==
    LET covered == Len(new_carriers) * CarrierEntrySize
        e       == n - DEFAULT_CARRIERS_MAX - 1
    IN  IF n <= DEFAULT_CARRIERS_MAX THEN 0
        ELSE IF e < covered
             THEN new_carriers[(e \div CarrierEntrySize) + 1][(e % CarrierEntrySize) + 1]
             ELSE input[n]

(* C11: when mm_carrier has written an output file, the file is as long as *)
(* the validated input (the size of the table less one); its spare bytes   *)
(* and every carrier entry past the ones new_carriers covers (index 10 and *)
(* up) are those of the input byte for byte, the default carrier bytes are *)
(* 0 and the first 10 entries are new_carriers.                            *)
C11_RewriteKeepsSpareAndTail ==
    (frame.fn = "mm_carrier" /\ frame.outfile # <<>>) =>
        /\ Len(frame.outfile) = CarrierTableSize - 1
        /\ Len(frame.outfile) = Len(frame.instream)
        /\ \A n \in 1..Len(frame.outfile) :
              frame.outfile[n] = RewrittenByte(frame.instream, n)
        /\ SubSeq(frame.outfile, SpareOffset, SpareOffset + SpareLen - 1)
              = SubSeq(frame.instream, SpareOffset, SpareOffset + SpareLen - 1)
        /\ \A k \in Len(new_carriers)..(CARRIER_TABLE_MAX_CARRIERS - 1) :
              SubSeq(frame.outfile, CarrierOffset(k), CarrierOffset(k + 1) - 1)
                = SubSeq(frame.instream, CarrierOffset(k), CarrierOffset(k + 1) - 1)

(* An output file has been written from an input whose default carriers,   *)
(* first entry, last entry and spare bytes are not zero: the defaults and  *)
(* the first entry have changed, the last entry and the spare bytes are in *)
(* the output.                                                             *)
C11_Witness ==
    /\ pc = "carrier_done"
    /\ frame.fn = "mm_carrier"
    /\ frame.ret = "0"
    /\ frame.outfile # <<>>
    /\ frame.instream[1] # 0
    /\ frame.outfile[1] = 0
    /\ frame.instream[CarrierOffset(0)] = 1
    /\ frame.outfile[CarrierOffset(0)] = 0
    /\ frame.outfile[CarrierOffset(CARRIER_TABLE_MAX_CARRIERS - 1)] # 0
    /\ frame.outfile[SpareOffset] # 0

---------------------------------------------------------------------------
(* A caller that encodes a digit string with string_to_bcd_a and decodes   *)
(* the buffer with callscrn_num_to_string or phone_num_to_string,          *)
(* src/mm_util.c:78-159.  The caller keeps number_string to compare.       *)

(* The decoders and their entry positions.                                 *)
Decoders == {"callscrn_num_to_string", "phone_num_to_string"}

DecoderEntry(decoder) ==
    IF decoder = "callscrn_num_to_string" THEN "callscrn_for" ELSE "phone_for"

(* The call of string_to_bcd_a(number_string, buffer, buff_len), with the  *)
(* decoder and the size of the string buffer the caller goes on with.      *)
roundtrip_Frame(number_string, buff_len, decoder, string_buf_len) ==
    string_to_bcd_a_Frame(number_string, buff_len, 255)
        @@ [decoder |-> decoder, string_buf_len |-> string_buf_len]

(* Digit strings of at most 2 * buff_len characters and string buffers of  *)
(* 2 * buff_len + 1 bytes or one more; short strings, and strings around   *)
(* the range of the uint8_t counter of string_to_bcd_a.                    *)
roundtrip_Init ==
    /\ pc = "bcd_memset"
    /\ \E decoder \in Decoders, slack \in {1, 2} :
          \/ \E s \in SeqsUpTo(DigitChars, MaxDigits), n \in 0..MaxBuffLen :
                /\ Len(s) <= 2 * n
                /\ frame = roundtrip_Frame(s, n, decoder, 2 * n + slack)
          \/ \E l \in LongLens, n \in LongBuffLens :
                /\ l <= 2 * n
                /\ frame = roundtrip_Frame(LongDigits(l), n, decoder, 2 * n + slack)

(* decoder(string_buf, string_buf_len, buffer, buff_len) once              *)
(* string_to_bcd_a has returned.                                           *)
roundtrip_decode ==
    /\ pc = "bcd_done"
    /\ "decoder" \in DOMAIN frame
    /\ frame' = [fn |-> frame.decoder, number_string |-> frame.number_string,
                 string_buf |-> <<>>, string_buf_len |-> frame.string_buf_len,
                 num_buf |-> frame.buffer, num_buf_len |-> frame.buff_len,
                 pstr |-> 0, i |-> 0, j |-> 0, pn_digit |-> 0]
    /\ pc' = DecoderEntry(frame.decoder)

roundtrip_Next ==
    \/ string_to_bcd_a_Next
    \/ roundtrip_decode
    \/ callscrn_num_to_string_Next
    \/ phone_num_to_string_Next

Spec_roundtrip == roundtrip_Init /\ [][roundtrip_Next]_vars

(* The caller runs on while it has a step to take.                         *)
FairSpec_roundtrip == Spec_roundtrip /\ WF_vars(roundtrip_Next)

(* The decoder has returned to the caller.                                 *)
RoundTripDone == pc \in {"callscrn_done", "phone_done"}

(* What the round trip has given where it has ended: from                  *)
(* callscrn_num_to_string a NUL-terminated string within the buffer, equal *)
(* to the string encoded; from phone_num_to_string a string other than the *)
(* one encoded when that holds a '0'.                                      *)
RoundTripYields ==
    /\ pc # "fault"
    /\ pc = "callscrn_done" =>
          /\ Len(frame.string_buf) <= frame.string_buf_len
          /\ frame.string_buf[Len(frame.string_buf)] = 0
          /\ PrintfS(frame.string_buf) = frame.number_string
    /\ pc = "phone_done" =>
          ((\E n \in 1..Len(frame.number_string) : frame.number_string[n] = 48)
              => PrintfS(frame.string_buf) # frame.number_string)

(* C12: for every string s of digits with len(s) <= 2 * buff_len, encoding *)
(* s with string_to_bcd_a into buff_len bytes and decoding the buffer with *)
(* callscrn_num_to_string into at least 2 * buff_len + 1 bytes yields a    *)
(* NUL-terminated string equal to s; the same round trip through           *)
(* phone_num_to_string does not give s back when s holds a '0'.            *)
C12_RoundTripGivesBackDigits == []RoundTripYields /\ <>RoundTripDone

(* The round trip ends for every string of at most UINT8_MAX digits.       *)
RoundTrip_EndsUpToUint8Digits ==
    (Len(frame.number_string) <= UINT8_MAX) => <>RoundTripDone

(* The round trip through callscrn_num_to_string has given back a string   *)
(* with a '0' in it that leaves a nibble of the buffer over.               *)
RoundTrip_GaveBackDigits ==
    /\ pc = "callscrn_done"
    /\ frame.number_string = <<49, 48, 57>>
    /\ frame.string_buf = <<49, 48, 57, 0, 0>>

---------------------------------------------------------------------------

Init ==
    \/ crc16_Init
    \/ phone_num_to_string_Init
    \/ string_to_bcd_a_Init
    \/ callscrn_num_to_string_Init
    \/ print_bits_Init
    \/ call_type_to_string_Init
    \/ convert_Init
    \/ carrier_Init
    \/ roundtrip_Init

Next ==
    \/ crc16_Next
    \/ phone_num_to_string_Next
    \/ string_to_bcd_a_Next
    \/ callscrn_num_to_string_Next
    \/ print_bits_Next
    \/ call_type_to_string_Next
    \/ convert_Next
    \/ carrier_Next
    \/ roundtrip_decode

Spec == Init /\ [][Next]_vars

====
